---------------------------- MODULE Spec2Model ----------------------------
(***************************************************************************)
(* Model of the activity logger (ver3: sessions + Slack self messages).    *)
(*                                                                         *)
(* A Go string is a sequence of one-character strings.  Control characters *)
(* are written by name (NUL, TAB, ...).  The category labels of            *)
(* classifyActivity are Japanese text in the source; the module language   *)
(* is ASCII, so each label is written here as one symbol, its romaji.      *)
(* Labels are only compared for equality and passed through clean, and     *)
(* hold no whitespace and no NUL in the source.                            *)
(*                                                                         *)
(* An instant (time.Time) is a natural number of clock units; UnitsPerSec  *)
(* units make one second, so that rounding to whole seconds and the        *)
(* second-resolution text of time.RFC3339 both lose information.           *)
(***************************************************************************)
EXTENDS Integers, Sequences, FiniteSets, TLC

\* Bounds of the model.
MaxTicks == 2
MaxFaults == 1

\* Resolution of the clock: units per time.Second.
UnitsPerSec == 2

\* pollInterval = 1500 * time.Millisecond, in clock units
pollInterval == 3

\* The time that may pass between two readings of time.Now(): less than a
\* unit, one unit, or the poll interval.
Steps == {0, 1, pollInterval}

-----------------------------------------------------------------------------
(* Characters and the strings package *)

NUL == "NUL"
TAB == "TAB"
NL == "NL"
VT == "VT"
FF == "FF"
CR == "CR"
SP == " "
NEL == "NEL"
NBSP == "NBSP"

\* unicode.IsSpace, as used by strings.TrimSpace
UnicodeSpace == {TAB, NL, VT, FF, CR, SP, NEL, NBSP}

\* the class \s of package regexp (RE2): [\t\n\f\r ]
ReSpace == {TAB, NL, FF, CR, SP}

UpperChars == <<"A", "B", "C", "D", "E", "F", "G", "H", "I", "J", "K", "L", "M", "N", "O", "P", "Q", "R", "S", "T", "U", "V", "W", "X", "Y", "Z">>
LowerChars == <<"a", "b", "c", "d", "e", "f", "g", "h", "i", "j", "k", "l", "m", "n", "o", "p", "q", "r", "s", "t", "u", "v", "w", "x", "y", "z">>

LowerChar(c) ==
    IF \E i \in 1..Len(UpperChars) : UpperChars[i] = c
    THEN LowerChars[CHOOSE i \in 1..Len(UpperChars) : UpperChars[i] = c]
    ELSE c

\* strings.ToLower
ToLower(s) == [i \in 1..Len(s) |-> LowerChar(s[i])]

\* strings.Contains
Contains(s, sub) ==
    \E i \in 0..(Len(s) - Len(sub)) : SubSeq(s, i + 1, i + Len(sub)) = sub

RECURSIVE DropLeading(_, _)
DropLeading(class, s) ==
    IF s # <<>> /\ s[1] \in class THEN DropLeading(class, Tail(s)) ELSE s

RECURSIVE DropTrailing(_, _)
DropTrailing(class, s) ==
    IF s # <<>> /\ s[Len(s)] \in class
    THEN DropTrailing(class, SubSeq(s, 1, Len(s) - 1))
    ELSE s

\* strings.TrimSpace
TrimSpace(s) == DropTrailing(UnicodeSpace, DropLeading(UnicodeSpace, s))

\* strings.ReplaceAll(s, old, new) for a one-character old; new is a string
RECURSIVE ReplaceAll(_, _, _)
ReplaceAll(s, old, new) ==
    IF s = <<>> THEN <<>>
    ELSE (IF s[1] = old THEN new ELSE <<s[1]>>) \o ReplaceAll(Tail(s), old, new)

\* spaceRe.ReplaceAllString(s, " ") with spaceRe = \s+
RECURSIVE ReplaceSpaceRuns(_)
ReplaceSpaceRuns(s) ==
    IF s = <<>> THEN <<>>
    ELSE IF s[1] \in ReSpace
         THEN <<SP>> \o ReplaceSpaceRuns(DropLeading(ReSpace, s))
         ELSE <<s[1]>> \o ReplaceSpaceRuns(Tail(s))

clean(s) ==
    LET s1 == ReplaceAll(s, NUL, <<>>)
        s2 == ReplaceAll(s1, TAB, <<SP>>)
    IN  TrimSpace(ReplaceSpaceRuns(s2))

-----------------------------------------------------------------------------
(* The classifier *)

LabelMail == <<"MeeruNoYaritori">>
LabelCoding == <<"PuroguramuNoSeisaku">>
LabelComm == <<"Komyunikeeshon">>
LabelResearch == <<"Chousa-DokyumentoEtsuran">>
LabelBrowsing == <<"WebBuraujingu">>
LabelDocs == <<"DokyumentoHenshuu">>
LabelSheets == <<"Hyoukeisan-DeetaSeiri">>
LabelSlides == <<"PurezenShiryouSakusei">>
LabelFiles == <<"FairuSousa">>
LabelMedia == <<"MediaShichou-Saisei">>
LabelOther == <<"Sonota">>

hasAny(s, keys) == \E k \in keys : Contains(s, k)

CodeExts ==
    { <<".", "g", "o">>, <<".", "p", "y">>, <<".", "j", "s">>, <<".", "t", "s">>, <<".", "r", "s">>, <<".", "c", "p", "p">>, <<".", "c">>, <<".", "j", "a", "v", "a">>,
      <<".", "r", "b">>, <<".", "k", "t">>, <<".", "s", "w", "i", "f", "t">>, <<".", "c", "s">> }

\* mutant: the keywords of the title are looked at before the application
classifyActivityTitleFirst(app, title) ==
    LET a == ToLower(app)
        t == ToLower(title)
    IN  IF hasAny(t, { <<"a", "r", "x", "i", "v">>, <<"q", "i", "i", "t", "a">>, <<"s", "t", "a", "c", "k", "o", "v", "e", "r", "f", "l", "o", "w">>, <<"d", "o", "c", "s">> })
        THEN LabelResearch
        ELSE IF a = <<"x", "c", "o", "d", "e">> \/ Contains(a, <<"g", "o", "l", "a", "n", "d">>)
        THEN LabelCoding
        ELSE LabelOther

\* mutant: without a matching rule the application name is the label
classifyActivityOpenSet(app, title) ==
    LET a == ToLower(app)
    IN  IF a = <<"x", "c", "o", "d", "e">> \/ Contains(a, <<"g", "o", "l", "a", "n", "d">>)
        THEN LabelCoding
        ELSE a

classifyActivity(app, title) ==
    LET a == ToLower(app)
        t == ToLower(title)
    IN
    IF a = <<"m", "a", "i", "l">> \/ Contains(a, <<"o", "u", "t", "l", "o", "o", "k">>)
       \/ Contains(t, <<"g", "m", "a", "i", "l">>) \/ Contains(t, <<"o", "u", "t", "l", "o", "o", "k">>)
       \/ Contains(t, <<"y", "a", "h", "o", "o", " ", "m", "a", "i", "l">>)
    THEN LabelMail
    ELSE IF Contains(a, <<"v", "i", "s", "u", "a", "l", " ", "s", "t", "u", "d", "i", "o", " ", "c", "o", "d", "e">>) \/ a = <<"x", "c", "o", "d", "e">>
            \/ Contains(a, <<"i", "n", "t", "e", "l", "l", "i", "j">>) \/ Contains(a, <<"g", "o", "l", "a", "n", "d">>)
    THEN LabelCoding
    ELSE IF \E ext \in CodeExts : Contains(t, ext)
    THEN LabelCoding
    ELSE IF Contains(a, <<"s", "l", "a", "c", "k">>) \/ Contains(a, <<"t", "e", "a", "m", "s">>)
            \/ Contains(a, <<"d", "i", "s", "c", "o", "r", "d">>) \/ Contains(a, <<"z", "o", "o", "m">>)
            \/ Contains(a, <<"m", "e", "e", "t">>)
    THEN LabelComm
    ELSE IF Contains(a, <<"s", "a", "f", "a", "r", "i">>) \/ Contains(a, <<"c", "h", "r", "o", "m", "e">>)
            \/ Contains(a, <<"a", "r", "c">>) \/ Contains(a, <<"f", "i", "r", "e", "f", "o", "x">>)
            \/ Contains(a, <<"e", "d", "g", "e">>) \/ Contains(a, <<"b", "r", "a", "v", "e">>)
            \/ Contains(a, <<"o", "p", "e", "r", "a">>) \/ Contains(a, <<"v", "i", "v", "a", "l", "d", "i">>)
    THEN IF hasAny(t, { <<"a", "r", "x", "i", "v">>, <<"q", "i", "i", "t", "a">>, <<"s", "t", "a", "c", "k", "o", "v", "e", "r", "f", "l", "o", "w">>, <<"d", "o", "c", "s">>,
                        <<"d", "o", "c", ":">>, <<"d", "o", "c", "u", "m", "e", "n", "t", "a", "t", "i", "o", "n">>, <<"m", "d", "n">> })
         THEN LabelResearch
         ELSE LabelBrowsing
    ELSE IF Contains(a, <<"w", "o", "r", "d">>) \/ Contains(a, <<"p", "a", "g", "e", "s">>)
            \/ Contains(a, <<"n", "o", "t", "i", "o", "n">>) \/ Contains(a, <<"o", "b", "s", "i", "d", "i", "a", "n">>)
    THEN LabelDocs
    ELSE IF Contains(a, <<"e", "x", "c", "e", "l">>) \/ Contains(a, <<"n", "u", "m", "b", "e", "r", "s">>)
            \/ Contains(a, <<"s", "h", "e", "e", "t", "s">>)
    THEN LabelSheets
    ELSE IF Contains(a, <<"p", "o", "w", "e", "r", "p", "o", "i", "n", "t">>) \/ Contains(a, <<"k", "e", "y", "n", "o", "t", "e">>)
    THEN LabelSlides
    ELSE IF Contains(a, <<"f", "i", "n", "d", "e", "r">>) \/ Contains(a, <<"p", "a", "t", "h", " ", "f", "i", "n", "d", "e", "r">>)
    THEN LabelFiles
    ELSE IF hasAny(t, { <<"y", "o", "u", "t", "u", "b", "e">>, <<"n", "e", "t", "f", "l", "i", "x">>, <<"t", "w", "i", "t", "c", "h">>, <<"s", "p", "o", "t", "i", "f", "y">>,
                        <<"m", "u", "s", "i", "c">>, <<"s", "o", "u", "n", "d", "c", "l", "o", "u", "d">> })
    THEN LabelMedia
    ELSE LabelOther

-----------------------------------------------------------------------------
(* Sessions *)

\* var last *record = nil
NoRecord == [nil |-> TRUE]

\* &record{App, Title, Activity, Timestamp}
Record(app, title, activity, ts) ==
    [nil |-> FALSE, App |-> app, Title |-> title, Activity |-> activity,
     Timestamp |-> ts]

\* mutant: a change of title alone goes unnoticed
changedIgnoringTitle(prev, cur) ==
    IF prev.nil THEN TRUE
    ELSE prev.App # cur.App \/ prev.Activity # cur.Activity

\* mutant: every sample counts as a change
changedAlways(prev, cur) == TRUE

\* mutant: the comparison is made on the normalised values
changedNormalised(prev, cur) ==
    IF prev.nil THEN TRUE
    ELSE clean(prev.App) # clean(cur.App)
         \/ clean(prev.Title) # clean(cur.Title)
         \/ clean(prev.Activity) # clean(cur.Activity)

changed(prev, cur) ==
    IF prev.nil THEN TRUE
    ELSE prev.App # cur.App \/ prev.Title # cur.Title
         \/ prev.Activity # cur.Activity

\* t.Format(time.RFC3339): the text has whole seconds only
FormatRFC3339(t) == t \div UnitsPerSec

\* d.Round(time.Second): halfway values round away from zero
RoundSecond(d) ==
    IF d >= 0
    THEN ((2 * d + UnitsPerSec) \div (2 * UnitsPerSec)) * UnitsPerSec
    ELSE 0 - ((2 * (0 - d) + UnitsPerSec) \div (2 * UnitsPerSec)) * UnitsPerSec

\* mutant: the duration is rounded but not floored at zero
sessionFromNoFloor(r, start, end) ==
    [Start |-> FormatRFC3339(start),
     End |-> FormatRFC3339(end),
     App |-> clean(r.App),
     Title |-> clean(r.Title),
     Activity |-> clean(r.Activity),
     DurationSec |-> RoundSecond(end - start) \div UnitsPerSec]

sessionFrom(r, start, end) ==
    LET rounded == RoundSecond(end - start)
        dur == IF rounded < 0 THEN 0 ELSE rounded
    IN  [Start |-> FormatRFC3339(start),
         End |-> FormatRFC3339(end),
         App |-> clean(r.App),
         Title |-> clean(r.Title),
         Activity |-> clean(r.Activity),
         DurationSec |-> dur \div UnitsPerSec]

-----------------------------------------------------------------------------
(* The bytes of the session container.  The file is a sequence of tokens;  *)
(* every token is a tuple whose first component names its kind.            *)

TokOpen == <<"[">>
TokSep == <<",">>
TokClose == <<"]">>
TokObjOpen == <<"{">>
TokObjClose == <<"}">>

\* the json tags of type session, in field order
SessionKeys == <<"start", "end", "app", "title", "activity", "durationSec">>

\* json.Marshal(s) for s of type session
Marshal(s) ==
    <<TokObjOpen,
      <<"start", s.Start>>, <<"end", s.End>>, <<"app", s.App>>,
      <<"title", s.Title>>, <<"activity", s.Activity>>,
      <<"durationSec", s.DurationSec>>,
      TokObjClose>>

ObjLen == Len(SessionKeys) + 2

\* whether toks starts with one complete serialized session
IsObjectAt(toks) ==
    /\ Len(toks) >= ObjLen
    /\ toks[1][1] = "{"
    /\ \A i \in 1..Len(SessionKeys) :
          Len(toks[i + 1]) = 2 /\ toks[i + 1][1] = SessionKeys[i]
    /\ toks[ObjLen][1] = "}"

Unmarshal(toks) ==
    [Start |-> toks[2][2], End |-> toks[3][2], App |-> toks[4][2],
     Title |-> toks[5][2], Activity |-> toks[6][2],
     DurationSec |-> toks[7][2]]

\* The reader of the container (the downstream parser the properties speak
\* of): a strict JSON array of session objects.
ParseFail == [ok |-> FALSE, recs |-> <<>>]

\* elements of a non-empty array body: object ("," object)*
RECURSIVE ParseElems(_)
ParseElems(toks) ==
    IF ~IsObjectAt(toks) THEN ParseFail
    ELSE LET rec == Unmarshal(toks)
             rest == SubSeq(toks, ObjLen + 1, Len(toks))
         IN  IF rest = <<>> THEN [ok |-> TRUE, recs |-> <<rec>>]
             ELSE IF rest[1][1] # "," THEN ParseFail
             ELSE LET more == ParseElems(Tail(rest))
                  IN  IF more.ok
                      THEN [ok |-> TRUE, recs |-> <<rec>> \o more.recs]
                      ELSE ParseFail

\* a JSON parser on the whole file: "[" elements "]" and nothing else
ParseFile(f) ==
    IF Len(f) < 2 \/ f[1][1] # "[" \/ f[Len(f)][1] # "]" THEN ParseFail
    ELSE IF Len(f) = 2 THEN [ok |-> TRUE, recs |-> <<>>]
    ELSE ParseElems(SubSeq(f, 2, Len(f) - 1))

-----------------------------------------------------------------------------
(* The session container writer: jsonArrayWriter over a bufio.Writer over  *)
(* an os.File.                                                             *)
(*                                                                         *)
(* jw.w is the content of the bufio.Writer's buffer, jw.werr its sticky    *)
(* error: once a write to the file has failed, every later WriteString,    *)
(* Write and Flush returns that error and writes nothing.  A write to the  *)
(* file that fails may have written any proper prefix of the bytes handed  *)
(* to it.  The bytes reach the file when the buffer is flushed; a record   *)
(* larger than the buffer reaches it during Write instead, with the same   *)
(* effect on the file, the buffer and the sticky error.                    *)

AppendFaults == {"none", "write", "sync"}

\* how many tokens a failing write has written: none, one, two, or all but
\* the last
Cuts == {0, 1, 2, Len(SessionKeys) + 1}
CloseFaults == {"none", "write", "close"}

\* bufio.Writer.WriteString / Write
BufWrite(j, toks) ==
    IF j.werr THEN [jw |-> j, err |-> TRUE]
    ELSE [jw |-> [j EXCEPT !.w = j.w \o toks], err |-> FALSE]

\* mutant: a failing write puts the whole buffer in the file and then
\* reports its error
BufFlushAllThenFail(j, f, fails, n) ==
    IF j.werr THEN [jw |-> j, file |-> f, err |-> TRUE]
    ELSE IF j.w = <<>> THEN [jw |-> j, file |-> f, err |-> FALSE]
    ELSE IF fails
    THEN [jw |-> [j EXCEPT !.w = <<>>, !.werr = TRUE],
          file |-> f \o j.w,
          err |-> TRUE]
    ELSE [jw |-> [j EXCEPT !.w = <<>>], file |-> f \o j.w, err |-> FALSE]

\* bufio.Writer.Flush onto file content f; the write fails when fails is
\* TRUE, after n of the buffered tokens
BufFlush(j, f, fails, n) ==
    IF j.werr THEN [jw |-> j, file |-> f, err |-> TRUE]
    ELSE IF j.w = <<>> THEN [jw |-> j, file |-> f, err |-> FALSE]
    ELSE IF fails
    THEN LET k == IF n < Len(j.w) THEN n ELSE Len(j.w) - 1
         IN  [jw |-> [j EXCEPT !.w = SubSeq(j.w, k + 1, Len(j.w)),
                                !.werr = TRUE],
              file |-> f \o SubSeq(j.w, 1, k),
              err |-> TRUE]
    ELSE [jw |-> [j EXCEPT !.w = <<>>], file |-> f \o j.w, err |-> FALSE]

\* mutant: no separator is ever written
SeparatorNever(j) == FALSE

\* mutant: a separator is written before every record, the first included
SeparatorAlways(j) == TRUE

\* the record's separator is due when a record has been written before
SeparatorDue(j) == j.wroteFirst

\* AppendSession on writer j, file content f with sy tokens synced;
\* json.Marshal cannot fail for a session (strings and integers only)
AppendSession(j, f, sy, s, fault, n) ==
    LET b == Marshal(s)
        sep == IF SeparatorDue(j) THEN BufWrite(j, <<TokSep>>)
               ELSE [jw |-> [j EXCEPT !.wroteFirst = TRUE], err |-> FALSE]
    IN
    IF sep.err
    THEN [jw |-> sep.jw, file |-> f, synced |-> sy, err |-> TRUE]
    ELSE LET wr == BufWrite(sep.jw, b)
         IN
         IF wr.err
         THEN [jw |-> wr.jw, file |-> f, synced |-> sy, err |-> TRUE]
         ELSE LET fl == BufFlush(wr.jw, f, fault = "write", n)
              IN
              IF fl.err
              THEN [jw |-> fl.jw, file |-> fl.file, synced |-> sy,
                    err |-> TRUE]
              ELSE IF fault = "sync"
              THEN [jw |-> fl.jw, file |-> fl.file, synced |-> sy,
                    err |-> TRUE]
              ELSE [jw |-> fl.jw, file |-> fl.file,
                    synced |-> Len(fl.file), err |-> FALSE]

\* mutant: Close releases the file without writing the closing token
CloseWriterNoToken(j, f, fault) ==
    IF j.werr
    THEN [jw |-> j, file |-> f, closed |-> FALSE, err |-> TRUE]
    ELSE [jw |-> j, file |-> f, closed |-> TRUE, err |-> fault = "close"]

\* Close on writer j: the file handle is released only when the closing
\* token was written and flushed
CloseWriter(j, f, fault) ==
    LET ws == BufWrite(j, <<TokClose>>)
    IN
    IF ws.err
    THEN [jw |-> ws.jw, file |-> f, closed |-> FALSE, err |-> TRUE]
    ELSE LET fl == BufFlush(ws.jw, f, fault = "write", 0)
         IN
         IF fl.err
         THEN [jw |-> fl.jw, file |-> fl.file, closed |-> FALSE,
               err |-> TRUE]
         ELSE [jw |-> fl.jw, file |-> fl.file, closed |-> TRUE,
               err |-> fault = "close"]

-----------------------------------------------------------------------------
(* The frontmost-sample collector *)

\* what the osascript calls print: application name and title, each with
\* the trailing newline of the command's output
CollectorOutputs ==
    { [app |-> <<"X", "c", "o", "d", "e">> \o <<NL>>, title |-> <<"m", ".", "g", "o">> \o <<NL>>],
      [app |-> <<"S", "a", "f", "a", "r", "i">> \o <<NL>>, title |-> <<"a", " ", "b">> \o <<NL>>],
      [app |-> <<"S", "a", "f", "a", "r", "i">> \o <<NL>>, title |-> <<"a", TAB, "b", NL>>] }

SampleError == [err |-> TRUE]

\* frontmostAppAndTitleWithBrowserTabs on the scripts' output: the trimmed
\* pair (the error case is SampleError)
frontmostAppAndTitleWithBrowserTabs(out) ==
    [err |-> FALSE, App |-> TrimSpace(out.app), Title |-> TrimSpace(out.title)]

OkSamples == {frontmostAppAndTitleWithBrowserTabs(o) : o \in CollectorOutputs}

SampleResults == {SampleError} \cup OkSamples

\* classifyActivity on the samples the collector can return, computed once
ActivityOf == [r \in OkSamples |-> classifyActivity(r.App, r.Title)]

-----------------------------------------------------------------------------
(* The event-stream ingestor: its inputs and its pure parts *)

\* Bound of the model: the number of events the transport delivers in a run.
MaxEvents == 2

\* the environment of the process: SLACK_BOT_TOKEN and SLACK_APP_TOKEN (set
\* or empty), SLACK_SELF_USER_ID, and SLACK_LOG_ALL = "1"
Env(bot, app, self, logAll) ==
    [bot |-> bot, app |-> app, self |-> self, logAll |-> logAll]

NoEnv == [unread |-> TRUE]

Envs ==
    { Env(TRUE, TRUE, <<"U", "1">>, FALSE),
      Env(TRUE, TRUE, <<"U", "1">>, TRUE),
      Env(FALSE, TRUE, <<"U", "1">>, FALSE),
      Env(TRUE, FALSE, <<"U", "1">>, FALSE),
      Env(TRUE, TRUE, <<>>, FALSE),
      Env(TRUE, TRUE, <<SP>>, TRUE) }

\* mutant: only the two tokens are required
IngestDisabledTokensOnly(env) == ~env.bot \/ ~env.app

\* the two early returns of startSlackIngest
IngestDisabled(env) ==
    (~env.bot \/ ~env.app) \/ TrimSpace(env.self) = <<>>

\* a socketmode.Event: its Type, whether Data is a slackevents.EventsAPIEvent,
\* whether that is a callback event, whether the inner event is a
\* *slackevents.MessageEvent, and the fields of the message event
Event(type, dataOk, callback, isMessage, sub, text, user, ch, thread, ts) ==
    [Type |-> type, DataOk |-> dataOk, Callback |-> callback,
     IsMessage |-> isMessage, SubType |-> sub, Text |-> text, User |-> user,
     Channel |-> ch, ThreadTimeStamp |-> thread, TimeStamp |-> ts]

MessageEvent(sub, text, user, ch, thread, ts) ==
    Event("events_api", TRUE, TRUE, TRUE, sub, text, user, ch, thread, ts)

OtherEvent(type, dataOk, callback) ==
    Event(type, dataOk, callback, FALSE, "", <<>>, <<>>, <<>>, "", "")

NoEvent == [none |-> TRUE]

Events ==
    { OtherEvent("disconnect", FALSE, FALSE),
      OtherEvent("events_api", FALSE, FALSE),
      OtherEvent("events_api", TRUE, TRUE),
      MessageEvent("", <<"h", "i">>, <<"U", "1">>, <<"C", "1">>, "", "10.1"),
      MessageEvent("", <<"y", "o">>, <<"U", "1">>, <<"C", "1">>, "10.1", "10.2"),
      MessageEvent("bot_message", <<"h", "i">>, <<"U", "1">>, <<"C", "1">>, "", "10.3"),
      MessageEvent("", <<SP, NL>>, <<"U", "1">>, <<"C", "1">>, "", "10.4"),
      MessageEvent("", <<"o", "k">>, <<"U", "2">>, <<"D", " ", "2">>, "", "10.5") }

\* the three filters of the message case, in the order of the code
SubtypeDrop(ev) == ev.SubType # ""
EmptyTextDrop(ev) == TrimSpace(ev.Text) = <<>>
\* mutant: the author is not compared with SLACK_SELF_USER_ID
NotSelfDropNever(ev, env) == FALSE

NotSelfDrop(ev, env) == ~env.logAll /\ ev.User # env.self

\* the wall clock counts half milliseconds
WallPerMs == 2
MsPerSec == 1000

\* time.Now().Format("20060102_150405.000"): whole milliseconds
FormatMillis(t) == t \div WallPerMs

\* time.Now().Format(time.RFC3339) of a wall-clock reading
FormatWallRFC3339(t) == t \div (WallPerMs * MsPerSec)

\* the time that may pass between two readings of the wall clock
WallSteps == {0, 1}

\* mutant: the metadata takes the thread id from the event's own timestamp
messageEntryThreadFromTs(ev, now) ==
    [Timestamp |-> FormatWallRFC3339(now),
     Source |-> "Slack",
     Direction |-> "sent",
     Title |-> ev.Channel,
     Text |-> ev.Text,
     Meta |-> [channelId |-> ev.Channel, threadTs |-> ev.TimeStamp,
               userId |-> ev.User, ts |-> ev.TimeStamp]]

messageEntry(ev, now) ==
    [Timestamp |-> FormatWallRFC3339(now),
     Source |-> "Slack",
     Direction |-> "sent",
     Title |-> ev.Channel,
     Text |-> ev.Text,
     Meta |-> [channelId |-> ev.Channel, threadTs |-> ev.ThreadTimeStamp,
               userId |-> ev.User, ts |-> ev.TimeStamp]]

\* safe, the closure of saveMessageJSON
safe(s) ==
    ReplaceAll(ReplaceAll(ReplaceAll(s, " ", <<"_">>), "/", <<"-">>), "\\", <<"-">>)

\* fmt.Sprintf("msg_%s_%s.json", ts, safe(m.Title))
FileName(ts, m) == <<"msg", ts, safe(m.Title)>>

\* enc.Encode(m): the keys in the order of the struct, the omitempty keys
\* only when their value is not empty
EncodeMessage(m) ==
    <<TokObjOpen, <<"timestamp", m.Timestamp>>, <<"source", m.Source>>>>
    \o (IF m.Direction = "" THEN <<>> ELSE << <<"direction", m.Direction>> >>)
    \o (IF m.Title = <<>> THEN <<>> ELSE << <<"title", m.Title>> >>)
    \o << <<"text", m.Text>>, <<"meta", m.Meta>>, TokObjClose >>

\* where a failing write of the encoded message may stop
MsgCuts == {0, 2}

-----------------------------------------------------------------------------
(* The polling driver (func main) *)

VARIABLES
    pc,           \* where main is: start, loop, sampling, hung, closing, done,
                  \* failed
    last,         \* var last *record
    sessStart,    \* var sessStart time.Time
    jw,           \* the jsonArrayWriter: buffer, sticky error, wroteFirst
    file,         \* content of the container file
    synced,       \* number of tokens of file covered by the last f.Sync()
    fclosed,      \* the file handle was closed by Close
    clock,        \* the instant last returned by time.Now()
    tickPending,  \* ticker.C holds a tick
    sigPending,   \* sigCh holds a signal
    faults,       \* number of I/O faults the file system has produced
    sample,       \* history: the collector's result on the last tick handled
    prevOk,       \* history: the last successful sample before that one
    nTicks,       \* history: number of ticks handled
    calls,        \* history: every AppendSession call, its origin and result
    closeRes      \* history: result of jw.Close(): none, ok, err

\* the event-stream ingestor (func startSlackIngest and its handler)
VARIABLES
    ipc,          \* where the ingestor is: init, disabled, idle, saving, encoding
    cfg,          \* the environment startSlackIngest has read
    smRun,        \* sm.Run(): off, running, failed
    inbox,        \* the event waiting on sm.Events
    nEvents,      \* number of events the transport has delivered
    msg,          \* the event being saved and its messageEntry
    msgName,      \* the file name saveMessageJSON has chosen for it
    acks,         \* history: the events acknowledged with sm.Ack, in order
    msgFiles,     \* the message directory: file name to content
    wall,         \* the wall clock as last read by the ingestor
    mfaults,      \* number of I/O faults in the message directory
    saves         \* history: every finished saveMessageJSON call

\* the argument and the result of one call of a pure function
VARIABLES arg, ret

driverVars ==
    <<pc, last, sessStart, jw, file, synced, fclosed, clock, tickPending,
      sigPending, faults, sample, prevOk, nTicks, calls, closeRes>>

ingestVars ==
    <<ipc, cfg, smRun, inbox, nEvents, msg, msgName, acks, msgFiles, wall,
      mfaults, saves>>

callVars == <<arg, ret>>

vars == <<driverVars, ingestVars, callVars>>

NoSample == [err |-> FALSE, none |-> TRUE]

NoArg == [none |-> TRUE]
NoRet == [none |-> TRUE]

\* the process at its start: main before newJSONArrayWriter, the ingestor's
\* goroutine not yet started, an empty message directory
ProgramInit ==
    /\ pc = "start"
    /\ last = NoRecord
    /\ sessStart = 0
    /\ jw = [w |-> <<>>, werr |-> FALSE, wroteFirst |-> FALSE]
    /\ file = <<>>
    /\ synced = 0
    /\ fclosed = FALSE
    /\ clock = 0
    /\ tickPending = FALSE
    /\ sigPending = FALSE
    /\ faults = 0
    /\ sample = NoSample
    /\ prevOk = NoSample
    /\ nTicks = 0
    /\ calls = <<>>
    /\ closeRes = "none"
    /\ ipc = "init"
    /\ cfg = NoEnv
    /\ smRun = "off"
    /\ inbox = NoEvent
    /\ nEvents = 0
    /\ msg = NoEvent
    /\ msgName = <<>>
    /\ acks = <<>>
    /\ msgFiles = <<>>
    /\ wall = 0
    /\ mfaults = 0
    /\ saves = <<>>

Init ==
    /\ ProgramInit
    /\ arg = NoArg
    /\ ret = NoRet

\* newJSONArrayWriter and its caller: the opening token is written and
\* flushed, or the process exits with status 1
newJSONArrayWriter ==
    /\ pc = "start"
    /\ \E ok \in BOOLEAN :
          IF ok
          THEN /\ file' = <<TokOpen>>
               /\ pc' = "loop"
          ELSE /\ file' = file
               /\ pc' = "failed"
    /\ UNCHANGED <<last, sessStart, jw, synced, fclosed, clock, tickPending,
                   sigPending, faults, sample, prevOk, nTicks, calls,
                   closeRes>>
    /\ UNCHANGED <<ingestVars, callVars>>

\* the faults the file system may produce now: at most MaxFaults in a run
FaultChoice(kinds) == IF faults < MaxFaults THEN kinds ELSE {"none"}

\* main has started and not returned: the runtime serves its channels
Running == pc \in {"loop", "sampling", "hung", "closing"}

\* the runtime timer sends on ticker.C (capacity 1, a tick is dropped when
\* the channel is full)
TickerFire ==
    /\ Running
    /\ ~tickPending
    /\ tickPending' = TRUE
    /\ UNCHANGED <<pc, last, sessStart, jw, file, synced, fclosed, clock,
                   sigPending, faults, sample, prevOk, nTicks, calls,
                   closeRes>>
    /\ UNCHANGED <<ingestVars, callVars>>

\* the runtime delivers SIGINT or SIGTERM on sigCh (capacity 1)
SignalArrive ==
    /\ Running
    /\ ~sigPending
    /\ sigPending' = TRUE
    /\ UNCHANGED <<pc, last, sessStart, jw, file, synced, fclosed, clock,
                   tickPending, faults, sample, prevOk, nTicks, calls,
                   closeRes>>
    /\ UNCHANGED <<ingestVars, callVars>>

\* history entry of one AppendSession call with result r: the session, the
\* caller, the error returned, and whether the buffer was flushed whole
Call(s, via, r) ==
    [s |-> s, via |-> via, err |-> r.err,
     flushed |-> (r.jw.w = <<>> /\ ~r.jw.werr)]

\* mutant: a failed sample drops the open session
SampleFailedResets ==
    /\ pc' = "loop"
    /\ last' = NoRecord
    /\ UNCHANGED <<sessStart, jw, file, synced, fclosed, clock, faults,
                   calls, closeRes>>

\* the collector failed: warn and continue
SampleFailed ==
    /\ pc' = "loop"
    /\ UNCHANGED <<last, sessStart, jw, file, synced, fclosed, clock,
                   faults, calls, closeRes>>

\* last == nil: the first session starts
StartFirst(cur, now) ==
    /\ last' = cur
    /\ sessStart' = now
    /\ clock' = now
    /\ pc' = "loop"
    /\ UNCHANGED <<jw, file, synced, fclosed, faults, calls, closeRes>>

\* mutant: the new session keeps the start of the one just finalized
TransitionKeepsStart(cur, now, fault, n) ==
    LET s == sessionFrom(last, sessStart, now)
        r == AppendSession(jw, file, synced, s, fault, n)
    IN  /\ jw' = r.jw
        /\ file' = r.file
        /\ synced' = r.synced
        /\ faults' = IF fault = "none" THEN faults ELSE faults + 1
        /\ calls' = Append(calls, Call(s, "tick", r))
        /\ last' = cur
        /\ sessStart' = sessStart
        /\ clock' = now
        /\ pc' = "loop"
        /\ UNCHANGED <<fclosed, closeRes>>

\* changed(last, cur): the previous session is finalized and appended,
\* then the new session starts
Transition(cur, now, fault, n) ==
    LET s == sessionFrom(last, sessStart, now)
        r == AppendSession(jw, file, synced, s, fault, n)
    IN  /\ jw' = r.jw
        /\ file' = r.file
        /\ synced' = r.synced
        /\ faults' = IF fault = "none" THEN faults ELSE faults + 1
        /\ calls' = Append(calls, Call(s, "tick", r))
        /\ last' = cur
        /\ sessStart' = now
        /\ clock' = now
        /\ pc' = "loop"
        /\ UNCHANGED <<fclosed, closeRes>>

\* nothing changed: the session stays open
NoChange(now) ==
    /\ clock' = now
    /\ pc' = "loop"
    /\ UNCHANGED <<last, sessStart, jw, file, synced, fclosed, faults, calls,
                   closeRes>>

\* case <-ticker.C once the collector has returned: its result res is
\* handled to the end of the case
TickCase ==
    /\ UNCHANGED <<ingestVars, callVars>>
    /\ \E res \in SampleResults :
          /\ sample' = res
          /\ prevOk' = IF sample.err \/ sample = NoSample THEN prevOk
                       ELSE sample
          /\ nTicks' = nTicks + 1
          /\ UNCHANGED sigPending
          /\ IF res.err THEN SampleFailed
             ELSE \E d \in Steps :
                     LET now == clock + d
                         activity == ActivityOf[res]
                         cur == Record(res.App, res.Title, activity, now)
                     IN  IF last.nil THEN StartFirst(cur, now)
                         ELSE IF changed(last, cur)
                         THEN \E fault \in FaultChoice(AppendFaults),
                                 n \in Cuts :
                                 Transition(cur, now, fault, n)
                         ELSE NoChange(now)

\* case <-ticker.C: one tick of the loop, from the call of the collector to
\* the end of the case, with a collector that returns at once
Tick ==
    /\ pc = "loop"
    /\ tickPending
    /\ nTicks < MaxTicks
    /\ tickPending' = FALSE
    /\ TickCase

\* mutant: the final record ends at the last instant read before the signal
FinalAppendStaleEnd(now, fault, n) ==
    LET s == sessionFrom(last, sessStart, clock)
        r == AppendSession(jw, file, synced, s, fault, n)
    IN  /\ jw' = r.jw
        /\ file' = r.file
        /\ synced' = r.synced
        /\ faults' = IF fault = "none" THEN faults ELSE faults + 1
        /\ calls' = Append(calls, Call(s, "exit", r))

\* the append of case <-sigCh
FinalAppend(now, fault, n) ==
    LET s == sessionFrom(last, sessStart, now)
        r == AppendSession(jw, file, synced, s, fault, n)
    IN  /\ jw' = r.jw
        /\ file' = r.file
        /\ synced' = r.synced
        /\ faults' = IF fault = "none" THEN faults ELSE faults + 1
        /\ calls' = Append(calls, Call(s, "exit", r))

\* the body of case <-sigCh: the open session, if any, is finalized
SignalCase ==
    /\ pc = "loop"
    /\ sigPending
    /\ sigPending' = FALSE
    /\ \E d \in Steps :
          LET now == clock + d
          IN  /\ clock' = now
              /\ IF ~last.nil
                 THEN \E fault \in FaultChoice(AppendFaults),
                         n \in Cuts :
                         FinalAppend(now, fault, n)
                 ELSE UNCHANGED <<jw, file, synced, faults, calls>>
    /\ UNCHANGED <<last, sessStart, fclosed, tickPending, sample, prevOk,
                   nTicks, closeRes>>
    /\ UNCHANGED <<ingestVars, callVars>>

\* mutant: break leaves the select only, and the loop goes on
ShutdownNoBreak == SignalCase /\ pc' = "loop"

\* case <-sigCh with its break loop
Shutdown == SignalCase /\ pc' = "closing"

\* jw.Close() after the loop, then main returns
Finish ==
    /\ pc = "closing"
    /\ \E fault \in FaultChoice(CloseFaults) :
          LET r == CloseWriter(jw, file, fault)
          IN  /\ faults' = IF fault = "none" THEN faults ELSE faults + 1
              /\ jw' = r.jw
              /\ file' = r.file
              /\ fclosed' = r.closed
              /\ closeRes' = IF r.err THEN "err" ELSE "ok"
    /\ pc' = "done"
    /\ UNCHANGED <<last, sessStart, synced, clock, tickPending, sigPending,
                   sample, prevOk, nTicks, calls>>
    /\ UNCHANGED <<ingestVars, callVars>>

\* the polling driver alone: the goroutine of the ingestor takes no step
Next ==
    \/ newJSONArrayWriter
    \/ TickerFire
    \/ SignalArrive
    \/ Tick
    \/ Shutdown
    \/ Finish

Spec == Init /\ [][Next]_vars

-----------------------------------------------------------------------------
(* The polling driver with a collector that takes time *)

\* case <-ticker.C up to cmd.Run() in runOSA: osascript is started and main
\* waits for it to exit; the call has no deadline
CollectorStart ==
    /\ pc = "loop"
    /\ tickPending
    /\ nTicks < MaxTicks
    /\ tickPending' = FALSE
    /\ pc' = "sampling"
    /\ UNCHANGED <<last, sessStart, jw, file, synced, fclosed, clock,
                   sigPending, faults, sample, prevOk, nTicks, calls,
                   closeRes>>
    /\ UNCHANGED <<ingestVars, callVars>>

\* osascript has exited: cmd.Run() returns and the case runs to its end
CollectorReturn ==
    /\ pc = "sampling"
    /\ UNCHANGED tickPending
    /\ TickCase

\* osascript turns out never to exit (an application that does not answer,
\* a dialog nobody dismisses): main stays in cmd.Run()
CollectorHang ==
    /\ pc = "sampling"
    /\ pc' = "hung"
    /\ UNCHANGED <<last, sessStart, jw, file, synced, fclosed, clock,
                   tickPending, sigPending, faults, sample, prevOk, nTicks,
                   calls, closeRes>>
    /\ UNCHANGED <<ingestVars, callVars>>

\* the steps main takes by itself or on the collector's exit
MainStep ==
    \/ CollectorStart
    \/ CollectorReturn
    \/ Shutdown
    \/ Finish

CollectorNext ==
    \/ newJSONArrayWriter
    \/ TickerFire
    \/ SignalArrive
    \/ CollectorStart
    \/ CollectorReturn
    \/ CollectorHang
    \/ Shutdown
    \/ Finish

CollectorSpec == Init /\ [][CollectorNext]_vars

-----------------------------------------------------------------------------
(* Pure functions under call: the argument is drawn at the start, one      *)
(* action calls the function and holds its result.                         *)

\* Bound of the model: the instants given to sessionFrom.
MaxInstant == 6

\* the arguments of sessionFrom: a record of the collector, and any two
\* instants (end before, at or after start)
SessionFromInputs ==
    { [r |-> Record(s.App, s.Title, ActivityOf[s], start),
       start |-> start, end |-> end] :
      s \in OkSamples, start \in 0..MaxInstant, end \in 0..MaxInstant }

InitSessionFrom ==
    /\ ProgramInit
    /\ arg \in SessionFromInputs
    /\ ret = NoRet

CallSessionFrom ==
    /\ arg # NoArg
    /\ ret = NoRet
    /\ ret' = sessionFrom(arg.r, arg.start, arg.end)
    /\ UNCHANGED <<arg, driverVars, ingestVars>>

SessionFromSpec == InitSessionFrom /\ [][CallSessionFrom]_vars

-----------------------------------------------------------------------------
(* The event-stream ingestor (func startSlackIngest, saveMessageJSON) *)

\* the faults the message directory may produce now
MsgFaultChoice(kinds) == IF mfaults < MaxFaults THEN kinds ELSE {"none"}

\* mutant: the goroutine is started before newJSONArrayWriter is called
startSlackIngestEarly ==
    /\ pc \in {"start", "loop", "closing"}
    /\ ipc = "init"
    /\ \E env \in Envs :
          /\ cfg' = env
          /\ IF IngestDisabled(env)
             THEN ipc' = "disabled" /\ smRun' = smRun
             ELSE ipc' = "idle" /\ smRun' = "running"
    /\ UNCHANGED <<inbox, nEvents, msg, msgName, acks, msgFiles, wall,
                   mfaults, saves>>
    /\ UNCHANGED <<driverVars, callVars>>

\* go startSlackIngest(): the environment is read; without the tokens or
\* the user id the function returns, otherwise the client is made and
\* sm.Run() is entered
startSlackIngest ==
    /\ Running
    /\ ipc = "init"
    /\ \E env \in Envs :
          /\ cfg' = env
          /\ IF IngestDisabled(env)
             THEN ipc' = "disabled" /\ smRun' = smRun
             ELSE ipc' = "idle" /\ smRun' = "running"
    /\ UNCHANGED <<inbox, nEvents, msg, msgName, acks, msgFiles, wall,
                   mfaults, saves>>
    /\ UNCHANGED <<driverVars, callVars>>

\* mutant: an error of sm.Run() ends the process
TransportFailFatal ==
    /\ Running
    /\ smRun = "running"
    /\ smRun' = "failed"
    /\ pc' = "failed"
    /\ UNCHANGED <<ipc, cfg, inbox, nEvents, msg, msgName, acks, msgFiles,
                   wall, mfaults, saves>>
    /\ UNCHANGED <<last, sessStart, jw, file, synced, fclosed, clock,
                   tickPending, sigPending, faults, sample, prevOk, nTicks,
                   calls, closeRes, callVars>>

\* sm.Run() returns an error: it is printed and startSlackIngest returns;
\* the handler goroutine stays on sm.Events
TransportFail ==
    /\ Running
    /\ smRun = "running"
    /\ smRun' = "failed"
    /\ UNCHANGED <<ipc, cfg, inbox, nEvents, msg, msgName, acks, msgFiles,
                   wall, mfaults, saves>>
    /\ UNCHANGED <<driverVars, callVars>>

\* the transport sends an event on sm.Events
Deliver ==
    /\ Running
    /\ smRun = "running"
    /\ inbox = NoEvent
    /\ nEvents < MaxEvents
    /\ \E ev \in Events : inbox' = ev
    /\ nEvents' = nEvents + 1
    /\ UNCHANGED <<ipc, cfg, smRun, msg, msgName, acks, msgFiles, wall,
                   mfaults, saves>>
    /\ UNCHANGED <<driverVars, callVars>>

\* mutant: an envelope whose data is not an EventsAPIEvent is dropped
\* without an acknowledgement
ReceiveNoAckOnBadData ==
    /\ Running
    /\ ipc = "idle"
    /\ inbox # NoEvent
    /\ inbox' = NoEvent
    /\ LET ev == inbox
       IN  IF ev.Type # "events_api" \/ ~ev.DataOk
           THEN UNCHANGED <<acks, ipc, msg, wall>>
           ELSE /\ acks' = Append(acks, ev)
                /\ IF ~ev.Callback \/ ~ev.IsMessage
                   THEN UNCHANGED <<ipc, msg, wall>>
                   ELSE IF SubtypeDrop(ev) \/ EmptyTextDrop(ev)
                           \/ NotSelfDrop(ev, cfg)
                   THEN UNCHANGED <<ipc, msg, wall>>
                   ELSE \E d \in WallSteps :
                           /\ wall' = wall + d
                           /\ msg' = [ev |-> ev,
                                      m |-> messageEntry(ev, wall + d)]
                           /\ ipc' = "saving"
    /\ UNCHANGED <<cfg, smRun, nEvents, msgName, msgFiles, mfaults, saves>>
    /\ UNCHANGED <<driverVars, callVars>>

\* one turn of the handler loop, up to the call of saveMessageJSON: the
\* events-API envelope is acknowledged, a message event passes the three
\* filters, and the messageEntry is built
Receive ==
    /\ Running
    /\ ipc = "idle"
    /\ inbox # NoEvent
    /\ inbox' = NoEvent
    /\ LET ev == inbox
       IN  IF ev.Type # "events_api"
           THEN UNCHANGED <<acks, ipc, msg, wall>>
           ELSE /\ acks' = Append(acks, ev)
                /\ IF ~ev.DataOk \/ ~ev.Callback \/ ~ev.IsMessage
                   THEN UNCHANGED <<ipc, msg, wall>>
                   ELSE IF SubtypeDrop(ev) \/ EmptyTextDrop(ev)
                           \/ NotSelfDrop(ev, cfg)
                   THEN UNCHANGED <<ipc, msg, wall>>
                   ELSE \E d \in WallSteps :
                           /\ wall' = wall + d
                           /\ msg' = [ev |-> ev,
                                      m |-> messageEntry(ev, wall + d)]
                           /\ ipc' = "saving"
    /\ UNCHANGED <<cfg, smRun, nEvents, msgName, msgFiles, mfaults, saves>>
    /\ UNCHANGED <<driverVars, callVars>>

\* history entry of one finished saveMessageJSON call
Saved(name, err) == [ev |-> msg.ev, m |-> msg.m, name |-> name, err |-> err]

\* saveMessageJSON up to os.Create: the directory is made, the name is built
\* from the wall clock and the title, and the file is created (an existing
\* file of that name is truncated)
SaveCreate ==
    /\ Running
    /\ ipc = "saving"
    /\ \E fault \in MsgFaultChoice({"none", "mkdir", "create"}),
          d \in WallSteps :
          LET now == wall + d
              name == FileName(FormatMillis(now), msg.m)
          IN  /\ mfaults' = IF fault = "none" THEN mfaults ELSE mfaults + 1
              /\ IF fault = "mkdir"
                 THEN /\ saves' = Append(saves, Saved(<<>>, TRUE))
                      /\ ipc' = "idle"
                      /\ msg' = NoEvent
                      /\ UNCHANGED <<wall, msgFiles, msgName>>
                 ELSE IF fault = "create"
                 THEN /\ wall' = now
                      /\ saves' = Append(saves, Saved(name, TRUE))
                      /\ ipc' = "idle"
                      /\ msg' = NoEvent
                      /\ UNCHANGED <<msgFiles, msgName>>
                 ELSE /\ wall' = now
                      /\ msgFiles' = (name :> <<>>) @@ msgFiles
                      /\ msgName' = name
                      /\ ipc' = "encoding"
                      /\ UNCHANGED <<msg, saves>>
    /\ UNCHANGED <<cfg, smRun, inbox, nEvents, acks>>
    /\ UNCHANGED <<driverVars, callVars>>

\* enc.Encode(m) and the deferred f.Close(): the encoded entry is written
\* by one Write, which may fail after a part of it
SaveEncode ==
    /\ Running
    /\ ipc = "encoding"
    /\ \E fault \in MsgFaultChoice({"none", "write"}), n \in MsgCuts :
          LET toks == EncodeMessage(msg.m)
              written == IF fault = "write" THEN SubSeq(toks, 1, n) ELSE toks
          IN  /\ mfaults' = IF fault = "none" THEN mfaults ELSE mfaults + 1
              /\ msgFiles' = [msgFiles EXCEPT ![msgName] = written]
              /\ saves' = Append(saves, Saved(msgName, fault = "write"))
    /\ ipc' = "idle"
    /\ msg' = NoEvent
    /\ msgName' = <<>>
    /\ UNCHANGED <<cfg, smRun, inbox, nEvents, acks, wall>>
    /\ UNCHANGED <<driverVars, callVars>>

\* the driver beside the ingestor: no tick fires before the signal, which is
\* handled at the instant of start-up, and the container closes cleanly
IdleShutdown == Shutdown /\ clock' = clock

CleanFinish == Finish /\ closeRes' = "ok"

IngestNext ==
    \/ newJSONArrayWriter
    \/ SignalArrive
    \/ IdleShutdown
    \/ CleanFinish
    \/ startSlackIngest
    \/ TransportFail
    \/ Deliver
    \/ Receive
    \/ SaveCreate
    \/ SaveEncode

IngestSpec == Init /\ [][IngestNext]_vars

-----------------------------------------------------------------------------
(* Both pipelines side by side.  The desktop and the transport are kept    *)
(* small: the frontmost window is Xcode whenever the collector succeeds, a *)
(* tick with a sample comes one poll interval after the last reading of    *)
(* the clock, the signal is handled within one clock unit, and the         *)
(* transport delivers one event, a disconnect or a message of channel C1.  *)

PollTick ==
    /\ Tick
    /\ sample'.err \/ (sample'.App = <<"X", "c", "o", "d", "e">> /\ clock' = clock + pollInterval)

PromptShutdown == Shutdown /\ clock' = clock + 1

BothEvents ==
    { OtherEvent("disconnect", FALSE, FALSE),
      MessageEvent("", <<"h", "i">>, <<"U", "1">>, <<"C", "1">>, "", "10.1") }

DeliverOne == Deliver /\ nEvents = 0 /\ inbox' \in BothEvents

BothNext ==
    \/ newJSONArrayWriter
    \/ TickerFire
    \/ SignalArrive
    \/ PollTick
    \/ PromptShutdown
    \/ Finish
    \/ startSlackIngest
    \/ TransportFail
    \/ DeliverOne
    \/ Receive
    \/ SaveCreate
    \/ SaveEncode

BothSpec == Init /\ [][BothNext]_vars

-----------------------------------------------------------------------------
(* The classifier under call *)

\* the arguments of classifyActivity: application names and titles that
\* meet every rule, alone and in pairs that meet several rules at once
ClassifyApps ==
    { <<"M", "a", "i", "l">>, <<"M", "i", "c", "r", "o", "s", "o", "f", "t", " ", "O", "u", "t", "l", "o", "o", "k">>, <<"X", "c", "o", "d", "e">>, <<"G", "o", "L", "a", "n", "d">>, <<"S", "l", "a", "c", "k">>,
      <<"S", "a", "f", "a", "r", "i">>, <<"G", "o", "o", "g", "l", "e", " ", "C", "h", "r", "o", "m", "e">>, <<"N", "o", "t", "i", "o", "n">>, <<"N", "u", "m", "b", "e", "r", "s">>, <<"K", "e", "y", "n", "o", "t", "e">>,
      <<"F", "i", "n", "d", "e", "r">>, <<"P", "r", "e", "v", "i", "e", "w">>, <<>> }

ClassifyTitles ==
    { <<"I", "n", "b", "o", "x", " ", "-", " ", "G", "m", "a", "i", "l">>, <<"Y", "a", "h", "o", "o", " ", "M", "a", "i", "l">>, <<"m", "a", "i", "n", ".", "g", "o">>, <<"a", "r", "x", "i", "v", ".", "o", "r", "g">>,
      <<"G", "o", " ", "-", " ", "S", "t", "a", "c", "k", " ", "O", "v", "e", "r", "f", "l", "o", "w">>, <<"q", "i", "i", "t", "a", " ", "s", "t", "a", "c", "k", "o", "v", "e", "r", "f", "l", "o", "w">>, <<"Y", "o", "u", "T", "u", "b", "e">>,
      <<"a", "p", "i", " ", "d", "o", "c", "s">>, <<"U", "n", "t", "i", "t", "l", "e", "d">>, <<>> }

ClassifyInputs ==
    { [app |-> a, title |-> t] : a \in ClassifyApps, t \in ClassifyTitles }

InitClassify ==
    /\ ProgramInit
    /\ arg \in ClassifyInputs
    /\ ret = <<>>

\* classifyActivity is called, and called again, with the same arguments
CallClassify ==
    /\ arg # NoArg
    /\ Len(ret) < 2
    /\ ret' = Append(ret, classifyActivity(arg.app, arg.title))
    /\ UNCHANGED <<arg, driverVars, ingestVars>>

ClassifySpec == InitClassify /\ [][CallClassify]_vars

-----------------------------------------------------------------------------
(* sessionFrom on the strings a window can show *)

\* Bound of the model: the length of the strings the collector prints.
MaxLen == 4

\* the characters of those strings: a null byte, a tab, a space, a
\* no-break space and a letter
CleanChars == {NUL, TAB, SP, NBSP, "a"}

RECURSIVE StringsUpTo(_)
StringsUpTo(n) ==
    IF n = 0 THEN {<<>>}
    ELSE LET shorter == StringsUpTo(n - 1)
         IN  shorter \cup
             {Append(s, c) : s \in {t \in shorter : Len(t) = n - 1},
                             c \in CleanChars}

\* what the osascript calls print: one of the two names is any string of
\* CleanChars, each with the trailing newline of the command's output
CleanInputs ==
    { [app |-> <<"S", "a", "f", "a", "r", "i">> \o <<NL>>, title |-> t \o <<NL>>] :
      t \in StringsUpTo(MaxLen) }
    \cup
    { [app |-> a \o <<NL>>, title |-> <<"a", " ", "b">> \o <<NL>>] :
      a \in StringsUpTo(MaxLen) }

InitClean ==
    /\ ProgramInit
    /\ arg \in CleanInputs
    /\ ret = NoRet

\* the sample is taken, classified and, at the end of its session,
\* finalized by sessionFrom
CallClean ==
    /\ arg # NoArg
    /\ ret = NoRet
    /\ LET res == frontmostAppAndTitleWithBrowserTabs(arg)
           cur == Record(res.App, res.Title,
                         classifyActivity(res.App, res.Title), 0)
       IN  ret' = sessionFrom(cur, 0, pollInterval)
    /\ UNCHANGED <<arg, driverVars, ingestVars>>

CleanSpec == InitClean /\ [][CallClean]_vars

-----------------------------------------------------------------------------
(* Properties *)

\* a step that handles one tick
TickStep == nTicks' = nTicks + 1

\* the sample smp differs from the open session r in application, title or
\* category
Differs(r, smp) ==
    \/ r.App # smp.App
    \/ r.Title # smp.Title
    \/ r.Activity # classifyActivity(smp.App, smp.Title)

LastCall(cs) == cs[Len(cs)]

\* cs2 is cs with exactly one call added
OneCallAdded(cs, cs2) ==
    Len(cs2) = Len(cs) + 1 /\ SubSeq(cs2, 1, Len(cs)) = cs

EndsWith(f, toks) ==
    Len(f) >= Len(toks) /\ SubSeq(f, Len(f) - Len(toks) + 1, Len(f)) = toks

\* C1: a successful sample that differs from the open session in
\* application, title or category makes the tick hand exactly one record to
\* AppendSession, with the text of the open session's startedAt as start,
\* the text of the instant of this tick as end and the (normalised)
\* application, title and category of the old session; afterwards the open
\* session is the incoming sample, started at that same instant.
C1_TransitionEmitsOldSession ==
    [][(TickStep /\ ~sample'.err /\ ~last.nil /\ Differs(last, sample'))
       => /\ OneCallAdded(calls, calls')
          /\ LET c == LastCall(calls')
             IN  /\ c.via = "tick"
                 /\ c.s.Start = FormatRFC3339(sessStart)
                 /\ c.s.End = FormatRFC3339(clock')
                 /\ c.s.App = clean(last.App)
                 /\ c.s.Title = clean(last.Title)
                 /\ c.s.Activity = clean(last.Activity)
          /\ last' = Record(sample'.App, sample'.Title,
                            classifyActivity(sample'.App, sample'.Title),
                            clock')
          /\ sessStart' = clock']_vars

\* C1 witness: a transition from the Xcode session to a Safari session has
\* been appended, and the Safari session is open since the reading of the
\* clock that ended the Xcode session.
C1_Witness ==
    /\ pc = "loop"
    /\ Len(calls) = 1
    /\ calls[1].via = "tick"
    /\ ~calls[1].err
    /\ calls[1].s.App = <<"X", "c", "o", "d", "e">>
    /\ calls[1].s.Start < calls[1].s.End
    /\ ~last.nil
    /\ last.App = <<"S", "a", "f", "a", "r", "i">>
    /\ sessStart = clock

\* C2: a successful sample with the application and title of the open
\* session emits nothing and leaves the session and its startedAt as they
\* are; and a tick emits a record exactly when its sample succeeded and
\* differs from the successful sample before it (none before the first), so
\* that the records emitted by ticks are as many as the transitions.
C2_NoRecordWithoutTransition ==
    [][TickStep
       => /\ (~sample'.err /\ ~last.nil
              /\ sample'.App = last.App /\ sample'.Title = last.Title)
             => (calls' = calls /\ last' = last /\ sessStart' = sessStart
                 /\ file' = file)
          /\ Len(calls') - Len(calls) =
                IF ~sample'.err /\ prevOk' # NoSample
                   /\ (sample'.App # prevOk'.App
                       \/ sample'.Title # prevOk'.Title)
                THEN 1 ELSE 0]_vars

\* C2 witness: two ticks saw the same sample, nothing was emitted and the
\* session still starts at the first sample although the clock has moved.
C2_Witness ==
    /\ pc = "loop"
    /\ nTicks = 2
    /\ ~sample.err
    /\ prevOk = sample
    /\ ~last.nil
    /\ calls = <<>>
    /\ file = <<TokOpen>>
    /\ sessStart < clock

\* C3: when the signal is handled with a session open since t0, at instant
\* t, AppendSession is called exactly once, with start t0 and end t, while
\* the file is still open; a call that returns no error has put the record
\* at the end of the file and synced it, and a Close that succeeds leaves it
\* the last record of the container.  Once the pass has started no further
\* record is emitted, whatever signals arrive.
C3_ShutdownEmitsOnce ==
    [][/\ (pc = "loop" /\ pc' = "closing" /\ ~last.nil)
          => /\ ~fclosed /\ ~fclosed' /\ closeRes' = "none"
             /\ OneCallAdded(calls, calls')
             /\ LET c == LastCall(calls')
                IN  /\ c.via = "exit"
                    /\ c.s.Start = FormatRFC3339(sessStart)
                    /\ c.s.End = FormatRFC3339(clock')
                    /\ ~c.err => /\ EndsWith(file', Marshal(c.s))
                                 /\ synced' = Len(file')
       /\ (pc = "closing" /\ pc' = "done" /\ closeRes' = "ok"
           /\ calls # <<>> /\ ~LastCall(calls).err)
          => LET p == ParseFile(file')
             IN  p.ok /\ p.recs # <<>>
                 /\ p.recs[Len(p.recs)] = LastCall(calls).s
       /\ pc \in {"closing", "done"} => calls' = calls]_vars

\* C3 witness: the process has ended, the one record of the session open at
\* the signal is in the closed container, and a second signal is pending.
C3_Witness ==
    /\ pc = "done"
    /\ closeRes = "ok"
    /\ sigPending
    /\ Len(calls) = 1
    /\ calls[1].via = "exit"
    /\ ~calls[1].err
    /\ calls[1].s.Start < calls[1].s.End
    /\ ParseFile(file).recs = <<calls[1].s>>

\* the file holds no byte of any record
NoRecordBytes(f) == \A i \in 1..Len(f) : f[i][1] \in {"[", "]"}

\* C4: when the signal is handled before any sample has succeeded, no
\* AppendSession call is made, the file never holds a byte of a record, and
\* a Close that succeeds leaves a closed container that parses to zero
\* records.
C4_CloseInNoneIsNoOp ==
    (pc \in {"closing", "done"} /\ last.nil)
    => /\ calls = <<>>
       /\ NoRecordBytes(file)
       /\ (pc = "done" /\ closeRes = "ok")
          => /\ fclosed
             /\ ParseFile(file) = [ok |-> TRUE, recs |-> <<>>]

\* C4 witness: every tick failed, the signal was handled and the container
\* was closed empty.
C4_Witness ==
    /\ pc = "done"
    /\ closeRes = "ok"
    /\ last.nil
    /\ nTicks = MaxTicks
    /\ sample.err
    /\ file = <<TokOpen, TokClose>>

ExitCalls(cs) == {i \in 1..Len(cs) : cs[i].via = "exit"}

\* C5: the signal is handled by one pass: the close-now and its append
\* (Shutdown), then the close of the writer (Finish), then exit.  main moves
\* from the loop to the pass only by consuming the signal, the call of the
\* pass is made in its first step and at most once, jw.Close() runs only
\* after it, and from the start of the pass on no tick is handled; once the
\* writer has been closed nothing is appended and nothing changes in the
\* file, whatever ticks and signals are pending.
C5_OneTerminationPass ==
    [][/\ pc' # pc
          => <<pc, pc'>> \in {<<"start", "loop">>, <<"start", "failed">>,
                              <<"loop", "closing">>, <<"closing", "done">>}
       /\ (sigPending /\ ~sigPending') => (pc = "loop" /\ pc' = "closing")
       /\ ExitCalls(calls') # ExitCalls(calls)
          => (pc = "loop" /\ pc' = "closing" /\ ExitCalls(calls) = {})
       /\ closeRes' # closeRes
          => (pc = "closing" /\ pc' = "done" /\ closeRes = "none"
              /\ calls' = calls)
       /\ pc \in {"closing", "done"}
          => (nTicks' = nTicks /\ last' = last /\ sessStart' = sessStart)
       /\ pc = "done"
          => (pc' = "done" /\ file' = file /\ calls' = calls /\ jw' = jw)]_vars

\* C5 witness: the process has ended after its pass with a tick and a
\* second signal still pending, and ticks left to handle.
C5_Witness ==
    /\ pc = "done"
    /\ tickPending
    /\ sigPending
    /\ nTicks < MaxTicks
    /\ Cardinality(ExitCalls(calls)) = 1

\* which calls a selection keeps: all of them, those that returned success,
\* or those whose bytes were written and flushed whole
Keeps(c, which) ==
    CASE which = "all" -> TRUE
      [] which = "succeeded" -> ~c.err
      [] which = "flushed" -> c.flushed

\* the sessions of the calls in cs that the selection keeps, in call order
RECURSIVE SessionsWhere(_, _)
SessionsWhere(cs, which) ==
    IF cs = <<>> THEN <<>>
    ELSE (IF Keeps(cs[1], which) THEN <<cs[1].s>> ELSE <<>>)
         \o SessionsWhere(Tail(cs), which)

\* what a reader gets from the file once the closing token alone is added
Repaired(f) == ParseFile(f \o <<TokClose>>)

\* C6: when every append succeeded and Close succeeded, the file parses
\* back into exactly the appended records, in append order, whatever their
\* number.
C6_RoundTrip ==
    (pc = "done" /\ closeRes = "ok" /\ \A i \in 1..Len(calls) : ~calls[i].err)
    => ParseFile(file) = [ok |-> TRUE, recs |-> SessionsWhere(calls, "all")]

\* C6 witness: two different records were appended and the container was
\* closed.
C6_Witness ==
    /\ pc = "done"
    /\ closeRes = "ok"
    /\ Len(calls) = 2
    /\ ~calls[1].err /\ ~calls[2].err
    /\ calls[1].s # calls[2].s
    /\ Len(file) = 2 * ObjLen + 3

\* main is between two operations on the writer, the file still open
AfterAppend == pc \in {"loop", "closing"} /\ calls # <<>>

\* C7 as claimed: whenever AppendSession has just returned success, nothing
\* is left in the buffer, the whole file is synced, and the file with the
\* closing token added parses to exactly the records whose append returned
\* success.
C7_AsClaimed ==
    (AfterAppend /\ ~LastCall(calls).err)
    => /\ jw.w = <<>>
       /\ synced = Len(file)
       /\ Repaired(file) =
             [ok |-> TRUE, recs |-> SessionsWhere(calls, "succeeded")]

\* C7 as amended: whenever AppendSession has just returned success, nothing
\* is left in the buffer, the whole file is synced, and the file with the
\* closing token added parses to exactly the records written and flushed so
\* far: those whose append returned success and those whose append failed
\* at the sync alone.  This holds after every append of a run.
C7_CrashConsistent ==
    (AfterAppend /\ ~LastCall(calls).err)
    => /\ jw.w = <<>>
       /\ ~jw.werr
       /\ synced = Len(file)
       /\ Repaired(file) =
             [ok |-> TRUE, recs |-> SessionsWhere(calls, "flushed")]

\* C7 witness: the second append of the run has returned success after the
\* first one failed at its sync.
C7_Witness ==
    /\ AfterAppend
    /\ Len(calls) = 2
    /\ calls[1].err /\ calls[1].flushed
    /\ ~calls[2].err
    /\ Len(Repaired(file).recs) = 2

\* C8 as claimed: when the write of record k fails after k-1 successful
\* appends, the file with the closing token added parses to exactly the
\* records 1..k-1.
C8_AsClaimed ==
    (/\ AfterAppend
     /\ LastCall(calls).err /\ ~LastCall(calls).flushed
     /\ \A i \in 1..(Len(calls) - 1) : ~calls[i].err)
    => Repaired(file) =
          [ok |-> TRUE,
           recs |-> SessionsWhere(SubSeq(calls, 1, Len(calls) - 1),
                                  "all")]

\* C9 as claimed: when the append of a finalized session fails on a tick,
\* the driver still holds that session and its start.
C9_AsClaimed ==
    [][(TickStep /\ Len(calls') = Len(calls) + 1 /\ LastCall(calls').err)
       => /\ last'.App = last.App
          /\ last'.Title = last.Title
          /\ last'.Activity = last.Activity
          /\ sessStart' = sessStart]_vars

\* C10: a tick whose sample fails changes neither the tracker state (last,
\* sessStart) nor the file, the synced length, the writer (buffer, sticky
\* error, wroteFirst) or the calls made; the loop goes on.
C10_FailedSampleChangesNothing ==
    [][(TickStep /\ sample'.err)
       => /\ last' = last
          /\ sessStart' = sessStart
          /\ file' = file
          /\ synced' = synced
          /\ jw' = jw
          /\ fclosed' = fclosed
          /\ calls' = calls
          /\ pc' = "loop"]_vars

\* C10 witness: the Xcode session opened before a failed tick was still
\* open at the signal and was appended with its own start.
C10_Witness ==
    /\ pc = "closing"
    /\ sample.err
    /\ nTicks = 2
    /\ Len(calls) = 1
    /\ calls[1].via = "exit"
    /\ ~calls[1].err
    /\ calls[1].s.App = <<"X", "c", "o", "d", "e">>
    /\ calls[1].s.Start = FormatRFC3339(sessStart)
    /\ calls[1].s.Start < calls[1].s.End

ReceiveStep == inbox # NoEvent /\ inbox' = NoEvent

\* the condition of the claims for a message event to be kept
Persistable(ev, env) ==
    /\ ev.SubType = ""
    /\ TrimSpace(ev.Text) # <<>>
    /\ (ev.User = env.self \/ env.logAll)

\* C12: when the handler takes a message event, the event goes on to
\* saveMessageJSON if and only if its subtype is empty, its text is not
\* empty after trimming and its author is the configured user or
\* SLACK_LOG_ALL is set; the filtering itself writes no file, and every step
\* that writes to the message directory is the save of such an event.
C12_EventFilter ==
    [][/\ (ReceiveStep /\ inbox.IsMessage)
          => /\ (ipc' = "saving" /\ msg'.ev = inbox)
                <=> Persistable(inbox, cfg)
             /\ ~Persistable(inbox, cfg) => ipc' = "idle"
             /\ msgFiles' = msgFiles
       /\ msgFiles' # msgFiles
          => /\ msg # NoEvent
             /\ msg.ev.IsMessage
             /\ Persistable(msg.ev, cfg)]_vars

\* C12 witness: under SLACK_LOG_ALL a bot message was acknowledged and
\* dropped, and a message of another user was saved; one file exists.
C12_Witness ==
    /\ Len(acks) = 2
    /\ acks[1].SubType = "bot_message"
    /\ Len(saves) = 1
    /\ saves[1].ev = acks[2]
    /\ saves[1].ev.User # cfg.self
    /\ ~saves[1].err
    /\ DOMAIN msgFiles = {saves[1].name}

\* the value of a key in the tokens of a message file, or a default
KeyValue(toks, key, default) ==
    IF \E i \in 1..Len(toks) : toks[i][1] = key
    THEN toks[CHOOSE i \in 1..Len(toks) : toks[i][1] = key][2]
    ELSE default

\* a message file that holds one whole JSON object
CompleteMessage(toks) ==
    /\ Len(toks) >= 2
    /\ toks[1] = TokObjOpen
    /\ toks[Len(toks)] = TokObjClose

\* what a reader of a whole message file gets; a key left out by omitempty
\* reads as the empty value
DecodeMessage(toks) ==
    [Timestamp |-> KeyValue(toks, "timestamp", 0),
     Source |-> KeyValue(toks, "source", ""),
     Direction |-> KeyValue(toks, "direction", ""),
     Title |-> KeyValue(toks, "title", <<>>),
     Text |-> KeyValue(toks, "text", <<>>),
     Meta |-> KeyValue(toks, "meta", <<>>)]

\* the message events acknowledged so far that pass the filter
KeptEvent(ev) == ev.IsMessage /\ Persistable(ev, cfg)
KeptAcks == SelectSeq(acks, KeptEvent)

\* the record the claims describe for the event ev
IsRecordOf(m, ev) ==
    /\ m.Text = ev.Text
    /\ m.Text # <<>>
    /\ m.Source = "Slack"
    /\ m.Title = ev.Channel
    /\ m.Meta = [channelId |-> ev.Channel, threadTs |-> ev.ThreadTimeStamp,
                 userId |-> ev.User, ts |-> ev.TimeStamp]

\* C13: every kept event gives exactly one record: the finished saves and
\* the save in progress are, in order, the kept events; each record has the
\* event's text, the source "Slack", the channel as title, and the channel,
\* thread, author and timestamp of that event as metadata; and a whole
\* message file reads back as the record of a save of that name.
C13_OneRecordPerEvent ==
    /\ Len(saves) + (IF msg = NoEvent THEN 0 ELSE 1) = Len(KeptAcks)
    /\ \A i \in 1..Len(saves) :
          /\ saves[i].ev = KeptAcks[i]
          /\ IsRecordOf(saves[i].m, saves[i].ev)
    /\ msg # NoEvent
       => msg.ev = KeptAcks[Len(KeptAcks)] /\ IsRecordOf(msg.m, msg.ev)
    /\ \A name \in DOMAIN msgFiles :
          CompleteMessage(msgFiles[name])
          => \E i \in 1..Len(saves) :
                /\ saves[i].name = name
                /\ ~saves[i].err
                /\ DecodeMessage(msgFiles[name]) = saves[i].m

\* C13 witness: the reply in channel C1 was saved, and its file reads back
\* with the text, the channel, the thread and the timestamp of the event.
C13_Witness ==
    /\ Len(saves) = 1
    /\ ~saves[1].err
    /\ saves[1].name \in DOMAIN msgFiles
    /\ LET m == DecodeMessage(msgFiles[saves[1].name])
       IN  /\ m.Text = <<"y", "o">>
           /\ m.Title = <<"C", "1">>
           /\ m.Meta.threadTs = "10.1"
           /\ m.Meta.ts = "10.2"
           /\ m.Meta.userId = <<"U", "1">>

\* C14 (as claimed): any two distinct events that were saved with success
\* have different file names, so both files exist and each still reads
\* back as its own record.
C14_AsClaimed ==
    \A i, j \in 1..Len(saves) :
       (i < j /\ ~saves[i].err /\ ~saves[j].err /\ saves[i].ev # saves[j].ev)
       => /\ saves[i].name # saves[j].name
          /\ DecodeMessage(msgFiles[saves[i].name]) = saves[i].m
          /\ DecodeMessage(msgFiles[saves[j].name]) = saves[j].m

\* the driver can take its next step: a pending tick, a pending signal
\* (stated for the case that no session is open), the close
DriverNotBlocked ==
    /\ (pc = "loop" /\ tickPending /\ nTicks < MaxTicks) => ENABLED Tick
    /\ (pc = "loop" /\ sigPending /\ last.nil) => ENABLED SignalCase
    /\ pc = "closing" => ENABLED Finish

\* the ingestor can take its next step while the process lives
IngestNotBlocked ==
    Running
    => /\ ipc = "init" => ENABLED startSlackIngest
       /\ (ipc = "idle" /\ inbox # NoEvent) => ENABLED Receive
       /\ ipc = "saving" => ENABLED SaveCreate
       /\ ipc = "encoding" => ENABLED SaveEncode

\* C15: a step that changes anything of the ingestor (its position, the
\* events, the message files, failed saves and transport errors included)
\* changes nothing of the driver (tracker state, container, writer,
\* position), a step that changes anything of the driver (failed samples
\* and failed appends included) changes nothing of the ingestor or the
\* message files, and in every state each pipeline can take its next step
\* whatever the state of the other.
C15_PipelinesIndependent ==
    /\ [][/\ ingestVars' # ingestVars => driverVars' = driverVars
          /\ driverVars' # driverVars => ingestVars' = ingestVars]_vars
    /\ [](DriverNotBlocked /\ IngestNotBlocked)

\* C15 witness: the collector failed on the last tick, the final append
\* failed and sm.Run() returned an error, and yet the message was saved and
\* the driver ran to its end.
C15_Witness ==
    /\ pc = "done"
    /\ sample.err
    /\ Len(calls) = 1
    /\ calls[1].err
    /\ smRun = "failed"
    /\ Len(saves) = 1
    /\ ~saves[1].err
    /\ CompleteMessage(msgFiles[saves[1].name])

\* C16: once startSlackIngest has read an environment in which the bot
\* token, the app token or the user id is missing, the ingestor is disabled:
\* sm.Run() is never entered, no event is delivered, acknowledged or saved
\* and no message file exists; the process has not failed and the driver
\* can take its next step.
C16_MissingConfigDisables ==
    (cfg # NoEnv /\ (~cfg.bot \/ ~cfg.app \/ cfg.self = <<>>))
    => /\ ipc = "disabled"
       /\ smRun = "off"
       /\ inbox = NoEvent
       /\ nEvents = 0
       /\ acks = <<>>
       /\ saves = <<>>
       /\ msgFiles = <<>>
       /\ pc # "failed"
       /\ DriverNotBlocked

\* C16 witness: without SLACK_SELF_USER_ID the driver handled its ticks,
\* appended the final record and ended.
C16_Witness ==
    /\ cfg # NoEnv
    /\ cfg.self = <<>>
    /\ ipc = "disabled"
    /\ pc = "done"
    /\ nTicks = MaxTicks
    /\ Len(calls) = 1
    /\ ~calls[1].err
    /\ closeRes = "ok"

\* C17 (as claimed): when the process has ended, every message event that
\* was acknowledged and passes the filter has a whole message file that
\* reads back as its record.
C17_AsClaimed ==
    pc = "done"
    => \A k \in 1..Len(KeptAcks) :
          \E name \in DOMAIN msgFiles :
             /\ CompleteMessage(msgFiles[name])
             /\ IsRecordOf(DecodeMessage(msgFiles[name]), KeptAcks[k])

\* C18: when newJSONArrayWriter fails the process is over at once: no step
\* follows, no tick was or is handled, the ingestor was not started, no
\* session was opened, no append was made, and neither the container nor
\* the message directory holds a record.
C18_StartupFailureExits ==
    /\ [](pc = "failed"
          => /\ nTicks = 0
             /\ ~tickPending
             /\ sample = NoSample
             /\ last.nil
             /\ calls = <<>>
             /\ NoRecordBytes(file)
             /\ ipc = "init"
             /\ cfg = NoEnv
             /\ nEvents = 0
             /\ msgFiles = <<>>)
    /\ [][pc # "failed"]_vars

\* C18 witness: the process has exited at start-up.
C18_Witness ==
    /\ pc = "failed"
    /\ file = <<>>
    /\ ipc = "init"

\* the keyword lists of the rules, as lower-case text
MailTitleKeys == { <<"g", "m", "a", "i", "l">>, <<"o", "u", "t", "l", "o", "o", "k">>, <<"y", "a", "h", "o", "o", " ", "m", "a", "i", "l">> }
EditorAppKeys == { <<"v", "i", "s", "u", "a", "l", " ", "s", "t", "u", "d", "i", "o", " ", "c", "o", "d", "e">>, <<"i", "n", "t", "e", "l", "l", "i", "j">>, <<"g", "o", "l", "a", "n", "d">> }
CommAppKeys == { <<"s", "l", "a", "c", "k">>, <<"t", "e", "a", "m", "s">>, <<"d", "i", "s", "c", "o", "r", "d">>, <<"z", "o", "o", "m">>, <<"m", "e", "e", "t">> }
BrowserAppKeys ==
    { <<"s", "a", "f", "a", "r", "i">>, <<"c", "h", "r", "o", "m", "e">>, <<"a", "r", "c">>, <<"f", "i", "r", "e", "f", "o", "x">>, <<"e", "d", "g", "e">>, <<"b", "r", "a", "v", "e">>, <<"o", "p", "e", "r", "a">>,
      <<"v", "i", "v", "a", "l", "d", "i">> }
ResearchTitleKeys ==
    { <<"a", "r", "x", "i", "v">>, <<"q", "i", "i", "t", "a">>, <<"s", "t", "a", "c", "k", "o", "v", "e", "r", "f", "l", "o", "w">>, <<"d", "o", "c", "s">>, <<"d", "o", "c", ":">>,
      <<"d", "o", "c", "u", "m", "e", "n", "t", "a", "t", "i", "o", "n">>, <<"m", "d", "n">> }
MediaTitleKeys ==
    { <<"y", "o", "u", "t", "u", "b", "e">>, <<"n", "e", "t", "f", "l", "i", "x">>, <<"t", "w", "i", "t", "c", "h">>, <<"s", "p", "o", "t", "i", "f", "y">>, <<"m", "u", "s", "i", "c">>,
      <<"s", "o", "u", "n", "d", "c", "l", "o", "u", "d">> }

\* the keywords of a title that name a site shown in a browser
BrowserDomainKeys == MailTitleKeys \cup ResearchTitleKeys \cup MediaTitleKeys

MailRule(a, t) ==
    a = <<"m", "a", "i", "l">> \/ Contains(a, <<"o", "u", "t", "l", "o", "o", "k">>) \/ hasAny(t, MailTitleKeys)

EditorRule(a) == a = <<"x", "c", "o", "d", "e">> \/ hasAny(a, EditorAppKeys)

\* the rules in their priority order, for a lower-case application a and
\* title t: whether the rule matches, and its label
Rules(a, t) ==
    << [match |-> MailRule(a, t), label |-> LabelMail],
       [match |-> EditorRule(a), label |-> LabelCoding],
       [match |-> hasAny(t, CodeExts), label |-> LabelCoding],
       [match |-> hasAny(a, CommAppKeys), label |-> LabelComm],
       [match |-> hasAny(a, BrowserAppKeys) /\ hasAny(t, ResearchTitleKeys),
        label |-> LabelResearch],
       [match |-> hasAny(a, BrowserAppKeys), label |-> LabelBrowsing],
       [match |-> hasAny(a, { <<"w", "o", "r", "d">>, <<"p", "a", "g", "e", "s">>, <<"n", "o", "t", "i", "o", "n">>, <<"o", "b", "s", "i", "d", "i", "a", "n">> }),
        label |-> LabelDocs],
       [match |-> hasAny(a, { <<"e", "x", "c", "e", "l">>, <<"n", "u", "m", "b", "e", "r", "s">>, <<"s", "h", "e", "e", "t", "s">> }),
        label |-> LabelSheets],
       [match |-> hasAny(a, { <<"p", "o", "w", "e", "r", "p", "o", "i", "n", "t">>, <<"k", "e", "y", "n", "o", "t", "e">> }),
        label |-> LabelSlides],
       [match |-> hasAny(a, { <<"f", "i", "n", "d", "e", "r">>, <<"p", "a", "t", "h", " ", "f", "i", "n", "d", "e", "r">> }),
        label |-> LabelFiles],
       [match |-> hasAny(t, MediaTitleKeys), label |-> LabelMedia] >>

AnyRuleMatches(a, t) == \E k \in 1..Len(Rules(a, t)) : Rules(a, t)[k].match

\* the label of the first rule that matches, the default label without one
FirstMatch(a, t) ==
    LET rs == Rules(a, t)
    IN  IF \E k \in 1..Len(rs) : rs[k].match
        THEN rs[CHOOSE k \in 1..Len(rs) :
                   rs[k].match /\ \A j \in 1..(k - 1) : ~rs[j].match].label
        ELSE LabelOther

ArgApp == ToLower(arg.app)
ArgTitle == ToLower(arg.title)

\* C19 (as claimed): for an application that matches the coding-editor rule
\* and a title that holds a browser-domain keyword the label is the
\* coding-editor label.
C19_AsClaimed ==
    \A i \in 1..Len(ret) :
       (EditorRule(ArgApp) /\ hasAny(ArgTitle, BrowserDomainKeys))
       => ret[i] = LabelCoding

\* C19: classifyActivity returns the label of the first rule, in the order
\* mail, coding editor, code file extension, communication, browser
\* (research before browsing), documents, spreadsheets, slides, files,
\* media, that matches; for an application that matches the coding-editor
\* rule and a title that holds a browser-domain keyword the label is the
\* coding-editor label unless the mail rule, which comes first, matches, and
\* then it is the mail label.
C19_FirstMatchWins ==
    \A i \in 1..Len(ret) :
       /\ ret[i] = FirstMatch(ArgApp, ArgTitle)
       /\ (EditorRule(ArgApp) /\ hasAny(ArgTitle, BrowserDomainKeys))
          => ret[i] = IF MailRule(ArgApp, ArgTitle) THEN LabelMail
                      ELSE LabelCoding

\* C19 witness: Xcode with a title that names qiita and stackoverflow was
\* classified as coding.
C19_Witness ==
    /\ Len(ret) = 1
    /\ arg.app = <<"X", "c", "o", "d", "e">>
    /\ arg.title = <<"q", "i", "i", "t", "a", " ", "s", "t", "a", "c", "k", "o", "v", "e", "r", "f", "l", "o", "w">>
    /\ hasAny(ArgTitle, ResearchTitleKeys)
    /\ ret[1] = LabelCoding

\* the closed set of labels
Labels ==
    { LabelMail, LabelCoding, LabelComm, LabelResearch, LabelBrowsing,
      LabelDocs, LabelSheets, LabelSlides, LabelFiles, LabelMedia,
      LabelOther }

RecordBefore(f, i) == \E k \in 1..(i - 1) : f[k] = TokObjClose

\* C21: after any sequence of AppendSession calls, failed ones included, a
\* separator stands in the file only right after a complete record, and the
\* bytes of a record are preceded by a separator exactly when a complete
\* record has been written to the file before them; the first record comes
\* right after the opening token.
C21_SeparatorIffNotFirst ==
    \A i \in 1..Len(file) :
        /\ file[i] = TokSep => (i > 1 /\ file[i - 1] = TokObjClose)
        /\ file[i] = TokObjOpen
              => /\ i > 1
                 /\ (file[i - 1] = TokSep) <=> RecordBefore(file, i)
                 /\ (file[i - 1] = TokOpen) <=> ~RecordBefore(file, i)

\* C21 witness: the first append failed at its sync, the second returned
\* success, and the second record stands after one separator.
C21_Witness ==
    /\ AfterAppend
    /\ Len(calls) = 2
    /\ calls[1].err
    /\ ~calls[2].err
    /\ Len(file) = 2 * ObjLen + 2
    /\ file[ObjLen + 2] = TokSep
    /\ file[ObjLen + 3] = TokObjOpen
    /\ file[2] = TokObjOpen

\* C22 (as claimed): a collector call that does not return is ended by the
\* driver itself: whenever main waits in runOSA for a collector that never
\* exits, main has a step to take (the expiry of the call's timeout), so
\* the tick completes and a pending signal gets handled.
C22_AsClaimed == pc = "hung" => ENABLED MainStep

\* C23: on a tick whose sample succeeded with a session open, a record is
\* emitted exactly when the sample differs from the open session in the raw
\* application, title or category, whether or not the normalised values
\* differ; the emitted record carries the normalised values of the old
\* session, and the session that stays or becomes open keeps the raw values
\* of its sample.
C23_RawComparison ==
    [][(TickStep /\ ~sample'.err /\ ~last.nil)
       => LET act == classifyActivity(sample'.App, sample'.Title)
              raw == \/ last.App # sample'.App
                     \/ last.Title # sample'.Title
                     \/ last.Activity # act
          IN  /\ raw <=> OneCallAdded(calls, calls')
              /\ ~raw <=> (calls' = calls /\ last' = last
                           /\ sessStart' = sessStart)
              /\ raw => /\ LastCall(calls').s.App = clean(last.App)
                        /\ LastCall(calls').s.Title = clean(last.Title)
                        /\ LastCall(calls').s.Activity = clean(last.Activity)
                        /\ last'.App = sample'.App
                        /\ last'.Title = sample'.Title
                        /\ last'.Activity = act]_vars

\* C23 witness: two samples that differ only by a tab in the title made a
\* transition, and the two records emitted have the same normalised
\* application, title and category.
C23_Witness ==
    /\ Len(calls) = 2
    /\ calls[1].via = "tick"
    /\ ~sample.err
    /\ prevOk # NoSample
    /\ prevOk.App = sample.App
    /\ prevOk.Title # sample.Title
    /\ clean(prevOk.Title) = clean(sample.Title)
    /\ calls[1].s.App = calls[2].s.App
    /\ calls[1].s.Title = calls[2].s.Title
    /\ calls[1].s.Activity = calls[2].s.Activity

\* no null byte, no tab, no two whitespace characters in a row, no
\* whitespace at either end
Normalised(s) ==
    /\ \A i \in 1..Len(s) : s[i] # NUL /\ s[i] # TAB
    /\ \A i \in 1..(Len(s) - 1) :
          ~(s[i] \in UnicodeSpace /\ s[i + 1] \in UnicodeSpace)
    /\ s # <<>> => (s[1] \notin UnicodeSpace /\ s[Len(s)] \notin UnicodeSpace)

\* C24 (as claimed): the application, title and category of every record
\* made by sessionFrom are normalised, whatever the collector returned.
C24_AsClaimed ==
    ret # NoRet
    => /\ Normalised(ret.App)
       /\ Normalised(ret.Title)
       /\ Normalised(ret.Activity)

\* an events-API envelope that is not a callback with a message event
UnexpectedShape(ev) ==
    ev.Type = "events_api" /\ (~ev.DataOk \/ ~ev.Callback \/ ~ev.IsMessage)

Acknowledged(ev) == \E i \in 1..Len(acks) : acks[i] = ev

\* C25: the step that takes an event from sm.Events acknowledges it once if
\* it is an events-API envelope, whatever its shape and whether or not it
\* is kept, and not otherwise; that step writes no file and finishes no
\* save, so the acknowledgement comes before any attempt to persist; no
\* other step acknowledges anything; an envelope of unexpected shape is
\* acknowledged and dropped, with the handler back on sm.Events, the
\* transport and main as they were.  Every save, finished or in progress,
\* is of an acknowledged event, and there are no more acknowledgements than
\* events delivered.
C25_AckOnceBeforePersist ==
    /\ [][/\ ReceiveStep
             => /\ acks' = IF inbox.Type = "events_api"
                           THEN Append(acks, inbox) ELSE acks
                /\ msgFiles' = msgFiles
                /\ saves' = saves
                /\ UnexpectedShape(inbox)
                      => /\ ipc' = "idle"
                         /\ msg' = msg
                         /\ smRun' = smRun
                         /\ pc' = pc
          /\ acks' # acks => ReceiveStep]_vars
    /\ [](/\ Len(acks) <= nEvents
          /\ \A i \in 1..Len(saves) : Acknowledged(saves[i].ev)
          /\ msg # NoEvent => Acknowledged(msg.ev)
          /\ Len(saves) + (IF msg = NoEvent THEN 0 ELSE 1) <= Len(acks))

\* C25 witness: an envelope whose data was not an EventsAPIEvent was
\* acknowledged and dropped, and the next envelope, a message, was
\* acknowledged and saved.
C25_Witness ==
    /\ Len(acks) = 2
    /\ ~acks[1].DataOk
    /\ acks[2].IsMessage
    /\ Len(saves) = 1
    /\ ~saves[1].err
    /\ saves[1].ev = acks[2]
    /\ smRun = "running"
    /\ ipc = "idle"

\* the complete records that stand in f, in file order
RECURSIVE RecordsIn(_)
RecordsIn(f) ==
    IF f = <<>> THEN <<>>
    ELSE IF IsObjectAt(f)
    THEN <<Unmarshal(f)>> \o RecordsIn(SubSeq(f, ObjLen + 1, Len(f)))
    ELSE RecordsIn(Tail(f))

\* the calls whose record is in the file
InFile(cs) == {i \in 1..Len(cs) : cs[i].flushed}

\* C26: the complete records in the file are the sessions of the appends
\* that reached the file, in the order of the calls, that is, of session
\* closure; each record starts at or after the end of the record before it
\* in the file, and at that very instant when no append failed between the
\* two.
C26_OrderedNoOverlap ==
    LET rs == RecordsIn(file)
    IN  /\ rs = SessionsWhere(calls, "flushed")
        /\ \A k \in 1..(Len(rs) - 1) : rs[k + 1].Start >= rs[k].End
        /\ \A a \in InFile(calls), b \in InFile(calls) :
              (/\ a < b
               /\ \A c \in (a + 1)..(b - 1) : c \notin InFile(calls)
               /\ \A c \in (a + 1)..(b - 1) : ~calls[c].err)
              => calls[b].s.Start = calls[a].s.End

\* C26 witness: two records are in the file, each longer than a second,
\* and the second starts at the end of the first.
C26_Witness ==
    /\ Len(RecordsIn(file)) = 2
    /\ RecordsIn(file)[1].Start < RecordsIn(file)[1].End
    /\ RecordsIn(file)[2].Start = RecordsIn(file)[1].End
    /\ RecordsIn(file)[2].Start < RecordsIn(file)[2].End

\* C27 as claimed: after any sequence of appends, the complete records in
\* the file are exactly the sessions whose append returned success.
C27_AsClaimed == RecordsIn(file) = SessionsWhere(calls, "succeeded")

\* C27 as amended: an AppendSession call that returns success adds its
\* record to the file; a call that returns the error of a write or flush
\* adds no complete record (it may add a fragment); a call that returns the
\* error of the sync alone has added its complete record.
C27_ErrorMeansNoRecordUnlessSync ==
    [][OneCallAdded(calls, calls')
       => LET c == LastCall(calls')
          IN  /\ ~c.err => c.flushed
              /\ c.flushed
                    => RecordsIn(file') = Append(RecordsIn(file), c.s)
              /\ ~c.flushed
                    => /\ RecordsIn(file') = RecordsIn(file)
                       /\ jw'.werr]_vars

\* C27 witness: the one append of the run returned the error of its sync,
\* the loop goes on, and the record is in the file.
C27_Witness ==
    /\ pc = "loop"
    /\ Len(calls) = 1
    /\ calls[1].err
    /\ calls[1].flushed
    /\ RecordsIn(file) = <<calls[1].s>>

=============================================================================
